---- MODULE Spec2Model ----
(***************************************************************************)
(* A model of lms/lms.py (class LMS): the static rewriting of a dataflow   *)
(* graph that inserts swap-out / swap-in identity operations and the       *)
(* control dependencies that schedule them.                                *)
(*                                                                         *)
(* An operation is a natural number; the operations of the user's graph    *)
(* are 0..n-1 in creation order and every operation LMS creates gets the   *)
(* next free number.  A tensor is <<op, idx>>: output idx of op.           *)
(* ndims[t] is <<>> for an unknown shape (None) and <<k>> for rank k.      *)
(***************************************************************************)
EXTENDS Integers, Sequences, FiniteSets, TLC

VARIABLES
    pc,              \* where run() is: "new", "constructed", "do_action",
                     \* "insert", "schedule", "done", "raised"
    err,             \* the exception that reached the caller, or "none"
    ops,             \* the operations of the graph
    op_type,         \* op.type
    op_scope,        \* the name scope of op.name
    in_cond,         \* the operations whose name contains "/cond/"
    ndims,           \* ts.shape.ndims of every tensor
    consumers,       \* the operations reading every tensor (data edges)
    control_inputs,  \* op.control_inputs (control edges)
    lms,             \* the configuration fields of the LMS object
    excl_ops,        \* self._excl_ops
    incl_ops,        \* self._incl_ops
    topo_sort,       \* self._topo_sort: op -> order, for the ordered ops
    swapout_ops,     \* self._swapout_ops
    swapin_ops,      \* self._swapin_ops
    ops_triples,     \* self._ops_triples: <<src_op, dest_op, swapin_op>>
    open_set,        \* _do_action: the FIFO queue
    closed_set,      \* _do_action: the visited set
    cur,             \* _do_action: src_op, next_ops and the pending ts_dests
    sched,           \* the position of the scheduling loops
    hist,            \* history: the graph run() was given, the sources
                     \* passed to _insert_swap_nodes, the calls of
                     \* _add_control_dependency
    call             \* a call of a pure method: its arguments and result

vars == <<pc, err, ops, op_type, op_scope, in_cond, ndims, consumers,
          control_inputs, lms, excl_ops, incl_ops, topo_sort, swapout_ops,
          swapin_ops, ops_triples, open_set, closed_set, cur, sched, hist,
          call>>

graphVars == <<ops, op_type, op_scope, in_cond, ndims, consumers,
               control_inputs>>

lmsVars == <<excl_ops, incl_ops, topo_sort, swapout_ops, swapin_ops,
             ops_triples>>

loopVars == <<open_set, closed_set, cur, sched>>

----------------------------------------------------------------------------
(* Small helpers *)

Max(S) == CHOOSE x \in S : \A y \in S : y <= x

Min(S) == CHOOSE x \in S : \A y \in S : x <= y

Range(s) == {s[i] : i \in 1..Len(s)}

\* The elements of a set of numbers in ascending order.
RECURSIVE Ascending(_)
Ascending(S) ==
    IF S = {} THEN <<>> ELSE <<Min(S)>> \o Ascending(S \ {Min(S)})

----------------------------------------------------------------------------
(* The graph, as graph_editor sees it *)

Tensors == DOMAIN consumers

Outputs(op) == {t \in Tensors : t[1] = op}

\* self._fanouts(op): the operations consuming an output of op.
Fanouts(op) == UNION {consumers[t] : t \in Outputs(op)}

\* self._fanins(op): the operations generating an input of op.
Fanins(op) == {t[1] : t \in {u \in Tensors : op \in consumers[u]}}

\* ge.get_forward_walk_ops(op): op and everything reachable from it along
\* data edges (control_outputs is None, so control edges are not walked).
RECURSIVE Walk(_, _)
Walk(frontier, seen) ==
    IF frontier = {} THEN seen
    ELSE LET next == (UNION {Fanouts(o) : o \in frontier}) \ seen
         IN  Walk(next, seen \cup next)

ForwardWalkOps(op) == Walk({op}, {op})

----------------------------------------------------------------------------
(* topos.TOPOS: the topological order index *)

\* The order of an operation: the length of the longest path of data and
\* control edges that ends in it.
RECURSIVE TopoLevel(_)
TopoLevel(op) ==
    LET preds == Fanins(op) \cup control_inputs[op]
    IN  IF preds = {} THEN 0
        ELSE 1 + Max({TopoLevel(p) : p \in preds})

\* TOPOS(all_ops).build()
TopoBuild(all_ops) == [op \in all_ops |-> TopoLevel(op)]

\* The operations without any edge.  The order index may leave them
\* without an order ("disconnected or dead nodes cannot be meaningfully
\* ordered") or give them one like the others.
Disconnected(all_ops) ==
    {op \in all_ops :
        /\ Fanins(op) = {}
        /\ Fanouts(op) = {}
        /\ control_inputs[op] = {}
        /\ \A o \in all_ops : op \notin control_inputs[o]}

\* What TOPOS(all_ops).build() may leave in self._topo_sort.
TopoBuilds(all_ops) ==
    {TopoBuild(all_ops), TopoBuild(all_ops \ Disconnected(all_ops))}

\* self._topo_sort.size
TopoSize(order) ==
    IF DOMAIN order = {} THEN 0
    ELSE 1 + Max({order[op] : op \in DOMAIN order})

\* self._get_order(op) is None
OrderIsNone(op) == op \notin DOMAIN topo_sort

\* self._get_order(op), for an operation that has an order
GetOrder(op) == topo_sort[op]

\* self._get_ops_by_order(i)
GetOpsByOrder(i) == {op \in DOMAIN topo_sort : topo_sort[op] = i}

----------------------------------------------------------------------------
(* Configuration and node classification *)

\* self._unused_types, always part of the excluded types.  The source has
\* no comma after 'AssignSubVariableOp', so Python joins it to the next name.
UnusedTypes ==
    {"Const", "Identity", "Placeholder", "PlaceholderWithDefault",
     "VariableV2", "Read", "Assign", "VarHandleOp",
     "VarIsInitializedOp", "VariableShape", "ReadVariableOp",
     "AssignVariableOp", "AssignAddVariableOp",
     "AssignSubVariableOpResourceGather", "ResourceScatterAdd",
     "ResourceScatterSub", "ResourceScatterMul", "ResourceScatterDiv",
     "ResourceScatterMin", "ResourceScatterMax", "ResourceScatterUpdate",
     "ResourceScatterNdUpdate", "ResourceScatterNdAdd",
     "Fill", "Range", "RandomUniform"}

InvalidSyncMode_Lax(sync_mode) == sync_mode \notin {0, 1, 2, 3, 4}

\* sync_mode not in {0, 1, 2, 3}
InvalidSyncMode(sync_mode) == sync_mode \notin {0, 1, 2, 3}

\* self._filter_scopes_and_types(within_ops, scopes, types)
FilterScopesAndTypes(within_ops, scopes, types) ==
    {op \in within_ops : op_scope[op] \in scopes}
        \cup {op \in within_ops : op_type[op] \in types}

\* The threshold run() works with: in auto mode, half the size of the order.
AutoThreshold(threshold, size) ==
    IF threshold < 0 THEN size \div 2 ELSE threshold

----------------------------------------------------------------------------
(* _groupby *)

\* x = sorted([i[1] for i in ops_ords]): the orders of the operations of S,
\* ascending, one entry per operation.
RECURSIVE SortedOrders(_)
SortedOrders(S) ==
    IF S = {} THEN <<>>
    ELSE LET m == Min({GetOrder(op) : op \in S})
             o == CHOOSE op \in S : GetOrder(op) = m
         IN  <<m>> \o SortedOrders(S \ {o})

WithinLimit_Strict(curr, last, limit) == curr[1] - last[2] < limit

\* curr[0] - last[1] <= limit
WithinLimit(curr, last, limit) == curr[1] - last[2] <= limit

\* The loop over xs[1..]: extend the last interval or open a new one.
RECURSIVE MergeIntervals(_, _, _, _)
MergeIntervals(xs, i, ys, limit) ==
    IF i > Len(xs) THEN ys
    ELSE LET last == ys[Len(ys)]
             curr == xs[i]
         IN  IF WithinLimit(curr, last, limit)
             THEN MergeIntervals(xs, i + 1,
                      [ys EXCEPT ![Len(ys)] = <<last[1], curr[2]>>], limit)
             ELSE MergeIntervals(xs, i + 1, Append(ys, curr), limit)

\* self._groupby(ops, limit), for a non-empty set of operations: the list of
\* the sets of operations whose order lies in each interval.
Groupby(S, limit) ==
    LET x  == SortedOrders(S)
        xs == [i \in 1..Len(x) |-> <<x[i], x[i]>>]
        ys == MergeIntervals(xs, 2, <<xs[1]>>, limit)
    IN  [k \in 1..Len(ys) |->
            {op \in S : GetOrder(op) >= ys[k][1] /\ GetOrder(op) <= ys[k][2]}]

----------------------------------------------------------------------------
(* _insert_swap_nodes: the candidate selector *)

ShapeSkipped_ScalarsOnly(d) == d = <<>> \/ d[1] < 1

\* ndims is None or ndims <= 1
ShapeSkipped(d) == d = <<>> \/ d[1] <= 1

IsFar_Inclusive(op, src_op_order, threshold) ==
    GetOrder(op) - src_op_order >= threshold

\* self._get_order(op) - src_op_order > self._swapout_threshold
IsFar(op, src_op_order, threshold) ==
    GetOrder(op) - src_op_order > threshold

\* cands: the consuming operations of ts that are far enough from src_op
Cands(src_op, ts) ==
    {op \in consumers[ts] :
        IsFar(op, GetOrder(src_op), lms.swapout_threshold)}

\* ts_dests, in the order of src_op.outputs: <<ts, cands>> for every output
\* that passes the shape filter and has a candidate.
RECURSIVE TsDestsFrom(_, _)
TsDestsFrom(src_op, idxs) ==
    IF idxs = <<>> THEN <<>>
    ELSE LET ts   == <<src_op, Head(idxs)>>
             rest == TsDestsFrom(src_op, Tail(idxs))
         IN  IF ShapeSkipped(ndims[ts]) \/ Cands(src_op, ts) = {}
             THEN rest
             ELSE <<(<<ts, Cands(src_op, ts)>>)>> \o rest

TsDests(src_op) ==
    TsDestsFrom(src_op, Ascending({t[2] : t \in Outputs(src_op)}))

Selected_InclusionWins(src_op) ==
    /\ ~OrderIsNone(src_op)
    /\ IF incl_ops # {} THEN src_op \in incl_ops ELSE src_op \notin excl_ops

\* _do_action: src_op is passed to _insert_swap_nodes
Selected(src_op) ==
    /\ src_op \notin excl_ops
    /\ ~OrderIsNone(src_op)
    /\ (incl_ops # {} => src_op \in incl_ops)

----------------------------------------------------------------------------
(* _insert_swap_nodes_for_ts, _add_swapout, _add_swapin *)

\* the earliest operations of a band: dest_op is one of them
EarliestOps(dest_ops) ==
    {op \in dest_ops :
        GetOrder(op) = Min({GetOrder(o) : o \in dest_ops})}

\* every way to pick dest_op for each band of targets
RECURSIVE AnchorChoices(_)
AnchorChoices(targets) ==
    IF targets = <<>> THEN {<<>>}
    ELSE {<<a>> \o rest : a \in EarliestOps(Head(targets)),
                          rest \in AnchorChoices(Tail(targets))}

\* The identifiers of the new operations: the swap-out op, then one swap-in
\* op per band.
SwapoutId == Cardinality(ops)

SwapinId(k) == Cardinality(ops) + k

SwapinIds(targets) == {SwapinId(k) : k \in 1..Len(targets)}

RewiredConsumers_KeepsOriginal(ts, targets) ==
    LET new == {<<SwapoutId, 0>>} \cup {<<s, 0>> : s \in SwapinIds(targets)}
    IN  [t \in Tensors \cup new |->
            IF t = ts THEN consumers[ts] \cup {SwapoutId}
            ELSE IF t = <<SwapoutId, 0>> THEN SwapinIds(targets)
            ELSE IF t \in new THEN targets[t[1] - SwapoutId]
            ELSE consumers[t]]

\* The data edges after _add_swapout and the _add_swapin of every band:
\* the swap-out op reads ts, swap-in op k reads the swap-out op's output and
\* every operation of band k reads swap-in op k instead of ts.
RewiredConsumers(ts, targets) ==
    LET moved == UNION Range(targets)
        new   == {<<SwapoutId, 0>>} \cup {<<s, 0>> : s \in SwapinIds(targets)}
    IN  [t \in Tensors \cup new |->
            IF t = ts THEN (consumers[ts] \ moved) \cup {SwapoutId}
            ELSE IF t = <<SwapoutId, 0>> THEN SwapinIds(targets)
            ELSE IF t \in new THEN targets[t[1] - SwapoutId]
            ELSE consumers[t]]

Excluded_SwapoutOnly(excl, sout, sins) == excl \cup {sout}

\* self._excl_ops after the new operations were added to it
Excluded(excl, sout, sins) == excl \cup {sout} \cup sins

\* The triples appended for one tensor, dests[k] being dest_op of band k.
NewTriples(src_op, dests) ==
    [k \in 1..Len(dests) |-> <<src_op, dests[k], SwapinId(k)>>]

----------------------------------------------------------------------------
(* _add_control_dependencies, _sequential_strategy, _do_direct_order *)

\* the lookahead of the first swap-ins
FirstAhead == 3

\* sorted(self._ops_triples, key=order of dest_op): a stable sort
RECURSIVE SortedTriples(_)
SortedTriples(s) ==
    IF s = <<>> THEN <<>>
    ELSE LET m == Min({GetOrder(s[i][2]) : i \in 1..Len(s)})
             j == Min({i \in 1..Len(s) : GetOrder(s[i][2]) = m})
         IN  <<s[j]>> \o SortedTriples(SubSeq(s, 1, j - 1)
                                           \o SubSeq(s, j + 1, Len(s)))

NextLb_Frozen(curr_order, last_order, lb) == lb

\* if curr_order != last_order: lb = last_order
NextLb(curr_order, last_order, lb) ==
    IF curr_order # last_order THEN last_order ELSE lb

TriggerCandidates_AnyScope(src_op, i) ==
    {op \in GetOpsByOrder(i) : src_op \in ForwardWalkOps(op)}

\* _do_direct_order: the candidates at order i
TriggerCandidates(src_op, i) ==
    {op \in GetOpsByOrder(i) :
        src_op \in ForwardWalkOps(op) /\ op \notin in_cond}

TriggerRange_Inclusive(fw_op, src_op, distance) ==
    (GetOrder(fw_op) + 1)..(GetOrder(src_op) - distance)

\* range(range_lb, range_ub)
TriggerRange(fw_op, src_op, distance) ==
    (GetOrder(fw_op) + 1)..(GetOrder(src_op) - distance - 1)

\* _do_direct_order: ctrld_order, the highest order of the range that has a
\* candidate, as <<order>>; <<>> when no order has one
CtrldOrder(fw_op, src_op, distance) ==
    LET hits == {i \in TriggerRange(fw_op, src_op, distance) :
                    TriggerCandidates(src_op, i) # {}}
    IN  IF hits = {} THEN <<>> ELSE <<Max(hits)>>

\* _do_direct_order: what it may return, <<ctrld_op, ctrld_order>> for any
\* operation of result_ops, or <<>> for (None, -1)
DoDirectOrder(fw_op, src_op, distance) ==
    LET o == CtrldOrder(fw_op, src_op, distance)
    IN  IF o = <<>> THEN {<<>>}
        ELSE {<<op, o[1]>> : op \in TriggerCandidates(src_op, o[1])}

\* self._add_control_inputs(op1, op2): control_inputs afterwards
AddControlInputs(op1, op2) ==
    IF \/ op2 \in control_inputs[op1]
       \/ op1 \in control_inputs[op2]
       \/ op2 \in Fanouts(op1)
    THEN control_inputs
    ELSE [control_inputs EXCEPT ![op1] = @ \cup {op2}]

\* _add_control_dependency(src_op, dest_op, swapin_op, ahead), re being what
\* _do_direct_order returned: control_inputs afterwards
AddControlDependency(swapin_op, re) ==
    IF re = <<>> THEN control_inputs ELSE AddControlInputs(swapin_op, re[1])

----------------------------------------------------------------------------
(* _sync_ops *)

DestOps_None(triples) == {}

\* dest_ops = {op[1] for op in self._ops_triples}
DestOps(triples) == {triples[i][2] : i \in 1..Len(triples)}

SrcOps_None(triples) == {}

\* src_ops = {op[0] for op in self._ops_triples}
SrcOps(triples) == {triples[i][1] : i \in 1..Len(triples)}

\* _sins(op)
Sins(op) == Fanins(op) \cap swapin_ops

\* _souts(op)
Souts(op) == Fanouts(op) \cap swapout_ops

\* _add_controls(ops1, ops2): ge.add_control_inputs(op1, ops2) for op1 in
\* ops1, in any order.  ge.add_control_inputs raises ValueError when one of
\* ops2 already is a control input of op1; the operations of ops1 handled
\* before that keep their new control inputs.
AddControls(ops1, ops2) ==
    LET dup == {op1 \in ops1 : control_inputs[op1] \cap ops2 # {}}
        added(done) == [op \in DOMAIN control_inputs |->
                           IF op \in done THEN control_inputs[op] \cup ops2
                           ELSE control_inputs[op]]
    IN  IF dup = {}
        THEN {[raised |-> FALSE, control_inputs |-> added(ops1)]}
        ELSE {[raised |-> TRUE, control_inputs |-> added(done)] :
                 done \in SUBSET (ops1 \ dup)}

\* What the scheduling loops start from.
SchedInit(triples) ==
    [i          |-> 1,
     lb         |-> 0,
     last_order |-> 0,
     dest_ops   |-> IF lms.sync_mode \in {1, 3} THEN DestOps(triples) ELSE {},
     src_ops    |-> IF lms.sync_mode \in {2, 3} THEN SrcOps(triples) ELSE {}]

SchedIdle == [i |-> 1, lb |-> 0, last_order |-> 0,
              dest_ops |-> {}, src_ops |-> {}]

----------------------------------------------------------------------------
(* The graphs and the arguments the model explores *)

MaxThreshold == 1
MaxGroupby == 1
MaxAhead == 1

\* The operations of a small graph, in creation order.
OrigOps == {0, 1, 2, 3}

LastOp == Max(OrigOps)

\* The defaults of LMS.__init__
DefaultLms ==
    [graph |-> FALSE, excl_scopes |-> {}, incl_scopes |-> {},
     excl_types |-> {}, incl_types |-> {}, swapout_threshold |-> 0 - 1,
     swapin_groupby |-> 5, swapin_ahead |-> 0 - 1, sync_mode |-> 0]

NoFilter ==
    [excl_scopes |-> {}, incl_scopes |-> {}, excl_types |-> {},
     incl_types |-> {}]

Filters ==
    {NoFilter,
     [excl_scopes |-> {}, incl_scopes |-> {"fw"}, excl_types |-> {"Relu"},
      incl_types |-> {}],
     [excl_scopes |-> {"fw", "bw"}, incl_scopes |-> {}, excl_types |-> {},
      incl_types |-> {}]}

\* Shapes, types and names of the operations of a small graph.
Decorations ==
    {[nd |-> [op \in OrigOps |-> <<2>>],
      types |-> [op \in OrigOps |-> IF op % 2 = 0 THEN "MatMul" ELSE "Relu"],
      cond |-> {}],
     [nd |-> [op \in OrigOps |->
                 IF op = 0 THEN <<>> ELSE IF op = 1 THEN <<1>> ELSE <<2>>],
      types |-> [op \in OrigOps |-> IF op % 2 = 0 THEN "MatMul" ELSE "Relu"],
      cond |-> {}],
     [nd |-> [op \in OrigOps |->
                 IF op = 0 THEN <<1>> ELSE IF op = 1 THEN <<3>> ELSE <<2>>],
      types |-> [op \in OrigOps |-> IF op % 2 = 0 THEN "MatMul" ELSE "Relu"],
      cond |-> {}],
     [nd |-> [op \in OrigOps |-> IF op = 1 THEN <<0>> ELSE <<2>>],
      types |-> [op \in OrigOps |-> IF op % 2 = 0 THEN "MatMul" ELSE "Relu"],
      cond |-> {2}],
     [nd |-> [op \in OrigOps |-> <<2>>],
      types |-> [op \in OrigOps |->
                    IF op = 0 THEN "Placeholder"
                    ELSE IF op % 2 = 0 THEN "MatMul" ELSE "Relu"],
      cond |-> {1}]}

\* The graphs over OrigOps whose operations have one output each, were
\* created in a topological order and, but for the last one, have a consumer.
SmallGraphs ==
    {g \in [{<<op, 0>> : op \in OrigOps} -> SUBSET OrigOps] :
        \A t \in DOMAIN g :
            /\ \A c \in g[t] : c > t[1]
            /\ t[1] # LastOp => g[t] # {}}

InitCommon ==
    /\ pc = "new"
    /\ err = "none"
    /\ control_inputs = [op \in ops |-> {}]
    /\ lms = DefaultLms
    /\ excl_ops = {}
    /\ incl_ops = {}
    /\ swapout_ops = {}
    /\ swapin_ops = {}
    /\ ops_triples = <<>>
    /\ open_set = <<>>
    /\ closed_set = {}
    /\ cur = [src_op |-> 0, next_ops |-> {}, ts_dests |-> <<>>]
    /\ sched = SchedIdle
    /\ hist = [orig |-> [ops |-> ops, consumers |-> consumers,
                         control_inputs |-> control_inputs],
               sync_mode |-> 0, selected |-> {}, calls |-> <<>>]
    /\ call = [fn |-> "none"]

\* The graphs over OrigOps whose last operation has no edge at all.
IslandGraphs ==
    {g \in [{<<op, 0>> : op \in OrigOps} -> SUBSET (OrigOps \ {LastOp})] :
        \A t \in DOMAIN g :
            /\ \A c \in g[t] : c > t[1]
            /\ t[1] < LastOp - 1 => g[t] # {}}

InitSmall ==
    /\ ops = OrigOps
    /\ consumers \in SmallGraphs \cup IslandGraphs
    /\ \E d \in Decorations :
          /\ ndims = [t \in DOMAIN consumers |-> d.nd[t[1]]]
          /\ op_type = d.types
          /\ in_cond = d.cond
    /\ op_scope = [op \in OrigOps |-> IF op < 2 THEN "fw" ELSE "bw"]
    /\ topo_sort = <<>>
    /\ InitCommon

\* A chain of n operations 0 -> 1 -> ... -> n-1 passing vectors, where
\* operation p has a second output, a matrix, read by the operations cs.
ChainScenarios ==
    {[n |-> 20, p |-> 0, cs |-> {19}],
     [n |-> 21, p |-> 10, cs |-> {11, 12, 15, 20}],
     [n |-> 21, p |-> 0, cs |-> {1, 2, 10, 11, 12, 20}]}

ChainConsumers(sc) ==
    [t \in {<<op, 0>> : op \in 0..(sc.n - 1)} \cup {<<sc.p, 1>>} |->
        IF t[2] = 1 THEN sc.cs
        ELSE IF t[1] < sc.n - 1 THEN {t[1] + 1} ELSE {}]

InitChain ==
    /\ \E sc \in ChainScenarios :
          /\ ops = 0..(sc.n - 1)
          /\ consumers = ChainConsumers(sc)
    /\ ndims = [t \in DOMAIN consumers |-> IF t[2] = 1 THEN <<2>> ELSE <<1>>]
    /\ op_type = [op \in ops |-> "MatMul"]
    /\ in_cond = {}
    /\ op_scope = [op \in ops |-> "fw"]
    /\ topo_sort = <<>>
    /\ InitCommon

Init == InitSmall \/ InitChain

\* The arguments tried on a graph: small numbers on a small graph, the
\* numbers of the scenarios on a chain.
IsChain == Cardinality(ops) > Cardinality(OrigOps)

Thresholds == IF IsChain THEN {0 - 1, 0, 3, 5} ELSE (0 - 1)..MaxThreshold

Groupbys == IF IsChain THEN {0, 5} ELSE 0..MaxGroupby

Aheads == IF IsChain THEN {0 - 1, 0, 3, 5} ELSE (0 - 1)..MaxAhead

----------------------------------------------------------------------------
(* LMS.__init__ and the head of run() *)

ConstructWith(graph, f, threshold, groupby, ahead, sync_mode) ==
    /\ pc = "new"
    /\ hist' = [hist EXCEPT !.sync_mode = sync_mode]
    /\ IF InvalidSyncMode(sync_mode)
       THEN /\ pc' = "raised"
            /\ err' = "ValueError: Invalid value for sync_mode"
            /\ lms' = lms
       ELSE /\ pc' = "constructed"
            /\ err' = err
            /\ lms' = [graph |-> graph,
                       excl_scopes |-> f.excl_scopes,
                       incl_scopes |-> f.incl_scopes,
                       excl_types |-> f.excl_types \cup UnusedTypes,
                       incl_types |-> f.incl_types,
                       swapout_threshold |-> threshold,
                       swapin_groupby |-> groupby,
                       swapin_ahead |-> ahead,
                       sync_mode |-> sync_mode]
    /\ UNCHANGED <<graphVars, lmsVars, loopVars, call>>

\* LMS(graph, excl_scopes, ..., sync_mode)
Construct ==
    \E graph \in BOOLEAN, f \in Filters, threshold \in Thresholds,
       groupby \in Groupbys, ahead \in Aheads, sync_mode \in 0..4 :
        /\ sync_mode # 0 => ahead = 0 - 1
        /\ f # NoFilter => threshold = 0 /\ groupby = Max(Groupbys)
        /\ ~graph => f = NoFilter /\ threshold < 0 /\ groupby = Max(Groupbys)
        /\ ConstructWith(graph, f, threshold, groupby, ahead, sync_mode)

\* run(graph), up to the call of _do_action
Run ==
    /\ pc = "constructed"
    /\ \E graph \in BOOLEAN :
        IF ~(graph \/ lms.graph)
        THEN /\ pc' = "raised"
             /\ err' = "ValueError: The dataflow graph is required"
             /\ UNCHANGED <<lms, lmsVars, loopVars>>
        ELSE /\ excl_ops' = FilterScopesAndTypes(ops, lms.excl_scopes,
                                                  lms.excl_types)
             /\ incl_ops' = FilterScopesAndTypes(ops, lms.incl_scopes,
                                                  lms.incl_types)
             /\ topo_sort' \in TopoBuilds(ops)
             /\ lms' = [lms EXCEPT
                          !.graph = TRUE,
                          !.swapout_threshold =
                              AutoThreshold(@, TopoSize(topo_sort'))]
             /\ open_set' = Ascending(ops)
             /\ closed_set' = {}
             /\ pc' = "do_action"
             /\ err' = err
             /\ UNCHANGED <<swapout_ops, swapin_ops, ops_triples, cur, sched>>
    /\ UNCHANGED <<graphVars, hist, call>>

----------------------------------------------------------------------------
(* _do_action *)

\* The end of one iteration of the while loop: the operations of next_ops
\* that are neither closed nor queued are queued, src_op is closed; when the
\* queue is empty _do_action returns and run() goes on to the scheduling.
FinishIteration(queue, src_op, next_ops) ==
    /\ open_set' = queue \o Ascending({op \in next_ops :
                                op \notin closed_set /\ op \notin Range(queue)})
    /\ closed_set' = closed_set \cup {src_op}
    /\ cur' = [src_op |-> src_op, next_ops |-> next_ops, ts_dests |-> <<>>]
    /\ IF open_set' = <<>>
       THEN pc' = "schedule" /\ sched' = SchedInit(ops_triples')
       ELSE pc' = "do_action" /\ sched' = sched

\* src_op = open_set.get(), the choice of what to do with it, and
\* _insert_swap_nodes up to the filtering of the candidates.
Visit ==
    /\ pc = "do_action"
    /\ open_set # <<>>
    /\ LET src_op   == Head(open_set)
           next_ops == Fanouts(src_op)
           ts_dests == IF Selected(src_op) THEN TsDests(src_op) ELSE <<>>
       IN  /\ hist' = [hist EXCEPT !.selected =
                          IF Selected(src_op) THEN @ \cup {src_op} ELSE @]
           /\ IF ts_dests = <<>>
              THEN /\ ops_triples' = ops_triples
                   /\ FinishIteration(Tail(open_set), src_op, next_ops)
              ELSE /\ pc' = "insert"
                   /\ open_set' = Tail(open_set)
                   /\ cur' = [src_op |-> src_op, next_ops |-> next_ops,
                              ts_dests |-> ts_dests]
                   /\ UNCHANGED <<ops_triples, closed_set, sched>>
    /\ UNCHANGED <<err, graphVars, lms, excl_ops, incl_ops, topo_sort,
                   swapout_ops, swapin_ops, call>>

\* One iteration of "for ts in ts_dests": _groupby, then
\* _insert_swap_nodes_for_ts, then the bookkeeping of the new operations.
InsertForTs ==
    /\ pc = "insert"
    /\ LET src_op  == cur.src_op
           ts      == Head(cur.ts_dests)[1]
           targets == Groupby(Head(cur.ts_dests)[2], lms.swapin_groupby)
           sout    == SwapoutId
           sins    == SwapinIds(targets)
           new     == {sout} \cup sins
       IN  \E dests \in AnchorChoices(targets) :
            /\ ops' = ops \cup new
            /\ op_type' = [op \in ops' |->
                              IF op \in new THEN "Identity" ELSE op_type[op]]
            /\ op_scope' = [op \in ops' |->
                               IF op \in new THEN "lms" ELSE op_scope[op]]
            /\ consumers' = RewiredConsumers(ts, targets)
            /\ ndims' = [t \in DOMAIN consumers' |->
                            IF t[1] \in new THEN ndims[ts] ELSE ndims[t]]
            /\ control_inputs' = [op \in ops' |->
                                     IF op = sout THEN {src_op}
                                     ELSE IF op \in sins THEN {}
                                     ELSE control_inputs[op]]
            /\ swapout_ops' = swapout_ops \cup {sout}
            /\ swapin_ops' = swapin_ops \cup sins
            /\ excl_ops' = Excluded(excl_ops, sout, sins)
            /\ ops_triples' = ops_triples \o NewTriples(src_op, dests)
            /\ IF Tail(cur.ts_dests) = <<>>
               THEN FinishIteration(open_set, src_op, cur.next_ops)
               ELSE /\ cur' = [cur EXCEPT !.ts_dests = Tail(@)]
                    /\ UNCHANGED <<pc, open_set, closed_set, sched>>
    /\ UNCHANGED <<err, in_cond, lms, incl_ops, topo_sort, hist, call>>

----------------------------------------------------------------------------
(* The scheduling: run() after _do_action *)

\* One call _add_control_dependency(t[0], t[1], t[2], ahead) of a loop.
CallAddControlDependency(t, ahead) ==
    \E re \in DoDirectOrder(t[1], t[2], ahead) :
        /\ control_inputs' = AddControlDependency(t[3], re)
        /\ hist' = [hist EXCEPT !.calls =
                       Append(@, [src_op |-> t[1], dest_op |-> t[2],
                                  swapin_op |-> t[3], ahead |-> ahead,
                                  re |-> re])]

\* _add_control_dependencies with a user-defined swapin_ahead: one iteration
\* of the loop over self._ops_triples, or its end.
UserAhead ==
    /\ pc = "schedule"
    /\ lms.sync_mode = 0
    /\ lms.swapin_ahead >= 0
    /\ IF sched.i > Len(ops_triples)
       THEN /\ pc' = "done"
            /\ UNCHANGED <<control_inputs, hist, sched>>
       ELSE /\ CallAddControlDependency(ops_triples[sched.i],
                                        lms.swapin_ahead)
            /\ sched' = [sched EXCEPT !.i = @ + 1]
            /\ pc' = pc
    /\ UNCHANGED <<err, ops, op_type, op_scope, in_cond, ndims, consumers,
                   lms, lmsVars, open_set, closed_set, cur, call>>

\* _sequential_strategy: x[0] of an empty list raises IndexError; otherwise
\* one iteration of its two loops, or their end.  The triples at the order
\* of x[0] get the fixed lookahead, the later ones curr_order - lb.
SequentialStrategy ==
    /\ pc = "schedule"
    /\ lms.sync_mode = 0
    /\ lms.swapin_ahead < 0
    /\ IF ops_triples = <<>>
       THEN /\ pc' = "raised"
            /\ err' = "IndexError: list index out of range"
            /\ UNCHANGED <<control_inputs, hist, sched>>
       ELSE LET x             == SortedTriples(ops_triples)
                x0_dest_order == GetOrder(x[1][2])
            IN  IF sched.i > Len(x)
                THEN /\ pc' = "done"
                     /\ err' = err
                     /\ UNCHANGED <<control_inputs, hist, sched>>
                ELSE LET curr_order == GetOrder(x[sched.i][2])
                         last_order == IF sched.i = 1 THEN x0_dest_order
                                       ELSE sched.last_order
                         lb0        == IF sched.i = 1 THEN x0_dest_order
                                       ELSE sched.lb
                         lb         == NextLb(curr_order, last_order, lb0)
                     IN  /\ IF curr_order = x0_dest_order
                            THEN CallAddControlDependency(x[sched.i],
                                                          FirstAhead)
                            ELSE CallAddControlDependency(x[sched.i],
                                                          curr_order - lb)
                         /\ sched' = [sched EXCEPT !.i = @ + 1, !.lb = lb,
                                         !.last_order = curr_order]
                         /\ pc' = pc
                         /\ err' = err
    /\ UNCHANGED <<ops, op_type, op_scope, in_cond, ndims, consumers,
                   lms, lmsVars, open_set, closed_set, cur, call>>

\* _sync_ops, sync_mode in {1, 3}: one iteration of "for x in dest_ops"
SyncSwapins ==
    /\ pc = "schedule"
    /\ sched.dest_ops # {}
    /\ \E x \in sched.dest_ops :
        LET x_sins == Sins(x)
            fs     == Fanins(x) \ x_sins
        IN  \E r \in AddControls(x_sins, fs) :
                /\ control_inputs' = r.control_inputs
                /\ IF r.raised
                   THEN /\ pc' = "raised"
                        /\ err' = "ValueError: already a control_input"
                        /\ sched' = sched
                   ELSE /\ pc' = pc
                        /\ err' = err
                        /\ sched' = [sched EXCEPT !.dest_ops = @ \ {x}]
    /\ UNCHANGED <<ops, op_type, op_scope, in_cond, ndims, consumers,
                   lms, lmsVars, open_set, closed_set, cur, hist, call>>

\* _sync_ops, sync_mode in {2, 3}: one iteration of "for x in src_ops"
SyncSwapouts ==
    /\ pc = "schedule"
    /\ sched.dest_ops = {}
    /\ sched.src_ops # {}
    /\ \E x \in sched.src_ops :
        LET x_souts == Souts(x)
            fs      == Fanouts(x) \ x_souts
        IN  \E r \in AddControls(fs, x_souts) :
                /\ control_inputs' = r.control_inputs
                /\ IF r.raised
                   THEN /\ pc' = "raised"
                        /\ err' = "ValueError: already a control_input"
                        /\ sched' = sched
                   ELSE /\ pc' = pc
                        /\ err' = err
                        /\ sched' = [sched EXCEPT !.src_ops = @ \ {x}]
    /\ UNCHANGED <<ops, op_type, op_scope, in_cond, ndims, consumers,
                   lms, lmsVars, open_set, closed_set, cur, hist, call>>

\* _sync_ops returns, and run() with it
SyncReturn ==
    /\ pc = "schedule"
    /\ lms.sync_mode # 0
    /\ sched.dest_ops = {}
    /\ sched.src_ops = {}
    /\ pc' = "done"
    /\ UNCHANGED <<err, graphVars, lms, lmsVars, loopVars, hist, call>>

Next ==
    \/ Construct
    \/ Run
    \/ Visit
    \/ InsertForTs
    \/ UserAhead
    \/ SequentialStrategy
    \/ SyncSwapins
    \/ SyncSwapouts
    \/ SyncReturn

Spec == Init /\ [][Next]_vars

----------------------------------------------------------------------------
(* _groupby as a function of its arguments *)

MaxGroupOps == 4
MaxOrder == 5
MaxLimit == 2

\* The operations 0..5 at the orders 1, 2, 10, 11, 12, 20.
ExampleOrders == <<1, 2, 10, 11, 12, 20>>

ExampleTopoSort == [op \in 0..5 |-> ExampleOrders[op + 1]]

InitGroupby ==
    /\ \/ \E k \in 1..MaxGroupOps :
             /\ ops = 0..(k - 1)
             /\ topo_sort \in [ops -> 0..MaxOrder]
       \/ /\ ops = 0..5
          /\ topo_sort = ExampleTopoSort
    /\ consumers = [t \in {<<op, 0>> : op \in ops} |-> {}]
    /\ ndims = [t \in DOMAIN consumers |-> <<2>>]
    /\ op_type = [op \in ops |-> "MatMul"]
    /\ in_cond = {}
    /\ op_scope = [op \in ops |-> "fw"]
    /\ InitCommon

\* zs = self._groupby(ops, limit)
GroupbyCall ==
    /\ call.fn = "none"
    /\ \E limit \in IF topo_sort = ExampleTopoSort THEN {5} ELSE 0..MaxLimit :
          call' = [fn |-> "_groupby", ops |-> ops, limit |-> limit,
                   zs |-> Groupby(ops, limit)]
    /\ UNCHANGED <<pc, err, graphVars, lms, lmsVars, loopVars, hist>>

NextGroupby == GroupbyCall

SpecGroupby == InitGroupby /\ [][NextGroupby]_vars

----------------------------------------------------------------------------
(* Vocabulary of the properties *)

\* The graph is the one the user built: no operation, data edge or control
\* edge was added or changed.
GraphUntouched ==
    /\ ops = hist.orig.ops
    /\ consumers = hist.orig.consumers
    /\ control_inputs = hist.orig.control_inputs

ConfigurationErrors ==
    {"ValueError: Invalid value for sync_mode",
     "ValueError: The dataflow graph is required"}

\* C1: a sync_mode outside {0,1,2,3} makes the constructor raise, and run()
\* without a graph (none at construction, none at the call) raises; when
\* either error is raised the graph is untouched and no triple, swap-out op
\* or swap-in op has been recorded.
C1_ConfigErrorBeforeMutation ==
    /\ (pc # "new" /\ hist.sync_mode \notin {0, 1, 2, 3})
          => err = "ValueError: Invalid value for sync_mode"
    /\ (pc \notin {"new", "constructed"} /\ ~lms.graph
            /\ hist.sync_mode \in {0, 1, 2, 3})
          => err = "ValueError: The dataflow graph is required"
    /\ err \in ConfigurationErrors
          => /\ pc = "raised"
             /\ GraphUntouched
             /\ ops_triples = <<>>
             /\ swapout_ops = {}
             /\ swapin_ops = {}

C1_Witness ==
    /\ pc = "raised"
    /\ err = "ValueError: The dataflow graph is required"
    /\ ~lms.graph
    /\ GraphUntouched

----------------------------------------------------------------------------
(* Relocation, read off the graph *)

OrigTensors == DOMAIN hist.orig.consumers

\* The operations that read tensor t through a swap-out op and a swap-in op.
Relocated(t) ==
    UNION {consumers[<<si, 0>>] :
              si \in UNION {consumers[<<so, 0>>] :
                               so \in consumers[t] \cap swapout_ops}}

\* _insert_swap_nodes(p) was called and has returned.
Processed(p) == p \in hist.selected /\ p \in closed_set

\* The shape of t is known and of rank 2 or more.
KnownMatrix(t) == ndims[t] # <<>> /\ ndims[t][1] >= 2

\* The topological distance from the producer of t to c.
Distance(t, c) == topo_sort[c] - topo_sort[t[1]]

\* C2, on the graph: once _insert_swap_nodes(p) has returned, for every
\* output t of p of known rank >= 2 the consumers that read t through a
\* swap-in are exactly those further than swapout_threshold from p, and the
\* others still read t.  With p at order 10, threshold 3 and consumers at
\* 11, 12, 15, 20 these are 15 and 20.
DistanceFilterIsStrict ==
    /\ \A t \in OrigTensors :
          (Processed(t[1]) /\ KnownMatrix(t)) =>
              /\ Relocated(t) =
                     {c \in hist.orig.consumers[t] :
                         Distance(t, c) > lms.swapout_threshold}
              /\ consumers[t] \cap hist.orig.ops =
                     {c \in hist.orig.consumers[t] :
                         Distance(t, c) <= lms.swapout_threshold}
    /\ (/\ <<10, 1>> \in OrigTensors
        /\ hist.orig.consumers[<<10, 1>>] = {11, 12, 15, 20}
        /\ lms.swapout_threshold = 3
        /\ Processed(10))
          => Relocated(<<10, 1>>) = {15, 20}

\* C2, auto mode: run() replaces a negative swapout_threshold by half the
\* number of orders, rounded down, and keeps any other.
AutoThresholdIsHalfTheOrder ==
    (pc = "constructed" /\ pc' = "do_action") =>
        lms'.swapout_threshold =
            IF lms.swapout_threshold < 0
            THEN Cardinality({topo_sort'[o] : o \in DOMAIN topo_sort'}) \div 2
            ELSE lms.swapout_threshold

\* C2: distance filtering is strict (a consumer at a distance equal to the
\* threshold is not relocated), and the auto threshold is floor(size / 2).
C2_DistanceFiltering ==
    [] DistanceFilterIsStrict /\ [][AutoThresholdIsHalfTheOrder]_vars

C2_Witness ==
    /\ pc = "done"
    /\ \E t \in OrigTensors :
          /\ Processed(t[1])
          /\ KnownMatrix(t)
          /\ \E c \in consumers[t] \cap hist.orig.ops :
                Distance(t, c) = lms.swapout_threshold
          /\ \E c \in Relocated(t) :
                Distance(t, c) = lms.swapout_threshold + 1

\* C3: no swap-out op ever reads a tensor whose shape is unknown or of rank
\* <= 1, and the consumers of such a tensor of the user's graph stay as they
\* were.
C3_ShapeFiltering ==
    \A t \in Tensors :
        ~KnownMatrix(t) =>
            /\ consumers[t] \cap swapout_ops = {}
            /\ t \in OrigTensors => consumers[t] = hist.orig.consumers[t]

C3_Witness ==
    /\ pc = "done"
    /\ swapout_ops # {}
    /\ \E t \in OrigTensors, u \in OrigTensors :
          /\ ndims[t] = <<>>
          /\ ndims[u] = <<1>>
          /\ Processed(t[1])
          /\ Processed(u[1])
          /\ \E c \in consumers[t] : Distance(t, c) > lms.swapout_threshold
          /\ \E c \in consumers[u] : Distance(u, c) > lms.swapout_threshold

\* C5: every swap-out and swap-in op created so far is in the excluded set,
\* none was ever passed to _insert_swap_nodes, and every tensor a swap-out
\* op reads, like the source of every triple, belongs to an operation of
\* the user's graph.
C5_IdempotentExclusion ==
    /\ swapout_ops \cup swapin_ops \subseteq excl_ops
    /\ hist.selected \cap (swapout_ops \cup swapin_ops) = {}
    /\ \A so \in swapout_ops : Fanins(so) \subseteq hist.orig.ops
    /\ \A i \in 1..Len(ops_triples) : ops_triples[i][1] \in hist.orig.ops

C5_Witness ==
    /\ pc = "do_action"
    /\ swapout_ops # {}
    /\ swapin_ops # {}
    /\ open_set # <<>>

\* The orders of a set of operations.
Orders(S) == {topo_sort[op] : op \in S}

\* C4: the bands _groupby returns are non-empty, pairwise disjoint and
\* cover the input; in a band every order but the smallest is within limit
\* of the next smaller order of the band; the smallest order of a band
\* exceeds the largest order of the band before it by more than limit (so
\* the bands ascend); orders 1, 2, 10, 11, 12, 20 with limit 5 give the
\* bands {1, 2}, {10, 11, 12}, {20}.
C4_GroupingCorrectness ==
    call.fn = "_groupby" =>
        LET zs    == call.zs
            limit == call.limit
        IN  /\ UNION Range(zs) = call.ops
            /\ \A i \in 1..Len(zs) : zs[i] # {}
            /\ \A i \in 1..Len(zs), j \in 1..Len(zs) :
                  i # j => zs[i] \cap zs[j] = {}
            /\ \A i \in 1..Len(zs) : \A r \in Orders(zs[i]) :
                  LET below == {q \in Orders(zs[i]) : q < r}
                  IN  below # {} => r - Max(below) <= limit
            /\ \A i \in 1..(Len(zs) - 1) :
                  Min(Orders(zs[i + 1])) - Max(Orders(zs[i])) > limit
            /\ (topo_sort = ExampleTopoSort /\ limit = 5)
                  => zs = <<{0, 1}, {2, 3, 4}, {5}>>

C4_Witness ==
    /\ call.fn = "_groupby"
    /\ Len(call.zs) = 2
    /\ \E r \in Orders(call.zs[1]) : r + call.limit \in Orders(call.zs[1])
    /\ Min(Orders(call.zs[2])) - Max(Orders(call.zs[1])) = call.limit + 1
    /\ call.limit > 0

\* The sequential strategy is in use.
Sequential == lms.sync_mode = 0 /\ lms.swapin_ahead < 0

\* The order of the anchor (dest_op) of call i of _add_control_dependency.
AnchorOrder(i) == topo_sort[hist.calls[i].dest_op]

\* C6 as stated: in the sequential strategy the lookaheads passed for
\* successive distinct anchor orders never decrease.
C6_LookaheadNonDecreasing ==
    Sequential =>
        \A i \in 1..Len(hist.calls), j \in 1..Len(hist.calls) :
            (i < j /\ AnchorOrder(i) < AnchorOrder(j))
                => hist.calls[i].ahead <= hist.calls[j].ahead

\* C6, amended: in the sequential strategy the calls come in the order of
\* their anchors; a call whose anchor has the smallest anchor order of all
\* triples gets lookahead 3, and every other call gets its anchor order
\* minus the next smaller anchor order of the triples.
C6_LookaheadIsGapToPreviousAnchor ==
    Sequential =>
        /\ \A i \in 1..Len(hist.calls), j \in 1..Len(hist.calls) :
              i < j => AnchorOrder(i) <= AnchorOrder(j)
        /\ \A i \in 1..Len(hist.calls) :
              LET anchors == {topo_sort[ops_triples[k][2]] :
                                 k \in 1..Len(ops_triples)}
                  below   == {a \in anchors : a < AnchorOrder(i)}
              IN  hist.calls[i].ahead =
                      IF below = {} THEN 3 ELSE AnchorOrder(i) - Max(below)

C6_Witness ==
    /\ pc = "done"
    /\ Sequential
    /\ Cardinality({AnchorOrder(i) : i \in 1..Len(hist.calls)}) >= 3
    /\ \E i \in 1..Len(hist.calls), j \in 1..Len(hist.calls) :
          /\ i < j
          /\ AnchorOrder(i) < AnchorOrder(j)
          /\ hist.calls[i].ahead > hist.calls[j].ahead

\* The swap-in ops among the fan-ins of x, and its other fan-ins.
SwapinFanins(x) == Fanins(x) \cap swapin_ops

OtherFanins(x) == Fanins(x) \ swapin_ops

EndToEndDone ==
    /\ pc = "done"
    /\ hist.orig.ops = 0..19
    /\ <<0, 1>> \in OrigTensors
    /\ hist.orig.consumers[<<0, 1>>] = {19}
    /\ lms.swapout_threshold = 5
    /\ lms.swapin_groupby = 5
    /\ Sequential

\* One swap-out op and one swap-in op were inserted on the matrix, and the
\* swap-in op is the only source of it for operation 19.
OneSwapPair ==
    /\ Cardinality(swapout_ops) = 1
    /\ Cardinality(swapin_ops) = 1
    /\ consumers[<<0, 1>>] = swapout_ops
    /\ \A so \in swapout_ops : consumers[<<so, 0>>] = swapin_ops
    /\ \A si \in swapin_ops : consumers[<<si, 0>>] = {19}
    /\ Fanins(19) = {18} \cup swapin_ops

\* C9 as stated: in the end-to-end scenario there is a control edge between
\* a swap op and an operation of the chain whose order lies strictly
\* between 0 and 14.
C9_TriggerInWindow0To14 ==
    EndToEndDone =>
        /\ OneSwapPair
        /\ \E n \in hist.orig.ops :
              /\ topo_sort[n] > 0
              /\ topo_sort[n] < 14
              /\ \E r \in swapout_ops \cup swapin_ops :
                    n \in control_inputs[r] \/ r \in control_inputs[n]

\* C9, amended: in the end-to-end scenario the only control input of the
\* swap-in op is the operation of order 15, the highest order of the open
\* window (0, 19 - 3); the only control input of the swap-out op is
\* operation 0, and no operation of the chain has a control input.
C9_TriggerAtOrder15 ==
    EndToEndDone =>
        /\ OneSwapPair
        /\ \A si \in swapin_ops :
              /\ Cardinality(control_inputs[si]) = 1
              /\ \A n \in control_inputs[si] :
                    n \in hist.orig.ops /\ topo_sort[n] = 15
        /\ \A so \in swapout_ops : control_inputs[so] = {0}
        /\ \A n \in hist.orig.ops : control_inputs[n] = {}

C9_Witness ==
    /\ EndToEndDone
    /\ swapout_ops = {20}
    /\ swapin_ops = {21}
    /\ control_inputs[21] = {15}

\* C10: whenever the traversal ends with no triple recorded, run() raises
\* nothing and the graph is untouched.
C10_NoCandidateNoError ==
    (/\ lms.graph
     /\ pc \in {"schedule", "done", "raised"}
     /\ ops_triples = <<>>)
        => (err = "none" /\ GraphUntouched)

----------------------------------------------------------------------------
(* The skip rules of the traversal *)

\* op matches an exclusion filter, an inclusion filter.
MatchesExclusion(op) ==
    op_scope[op] \in lms.excl_scopes \/ op_type[op] \in lms.excl_types

MatchesInclusion(op) ==
    op_scope[op] \in lms.incl_scopes \/ op_type[op] \in lms.incl_types

\* The operations _do_action has taken from the queue so far.
Dequeued == closed_set \cup (IF pc = "insert" THEN {cur.src_op} ELSE {})

\* Some output of op is read by a swap-out op.
HasSwapout(op) == Fanouts(op) \cap swapout_ops # {}

\* C11: the dequeued operations passed to _insert_swap_nodes are exactly
\* those that match no exclusion filter, have an order and, when some
\* operation of the graph matches an inclusion filter, match one; an
\* operation matching both an exclusion and an inclusion filter never gets a
\* swap-out op, an operation without an order never gets one either, and
\* the traversal raises nothing.
C11_SkipRules ==
    /\ hist.selected =
           {op \in Dequeued :
               /\ ~MatchesExclusion(op)
               /\ op \in DOMAIN topo_sort
               /\ \/ \A o \in hist.orig.ops : ~MatchesInclusion(o)
                  \/ MatchesInclusion(op)}
    /\ \A op \in hist.orig.ops :
          (MatchesExclusion(op) /\ MatchesInclusion(op)) => ~HasSwapout(op)
    /\ \A op \in Dequeued : op \notin DOMAIN topo_sort => ~HasSwapout(op)
    /\ pc \in {"do_action", "insert", "schedule"} => err = "none"

C11_Witness ==
    /\ pc = "done"
    /\ swapout_ops # {}
    /\ \E op \in closed_set : op \notin DOMAIN topo_sort
    /\ \E op \in closed_set :
          /\ MatchesExclusion(op)
          /\ MatchesInclusion(op)
          /\ \E t \in Outputs(op) :
                /\ KnownMatrix(t)
                /\ \E c \in consumers[t] :
                      Distance(t, c) > lms.swapout_threshold

----------------------------------------------------------------------------
(* The trigger search *)

\* n lies in the open window of call c of _add_control_dependency: its
\* order is above that of the producer and below that of the anchor minus
\* the lookahead.
InWindow(c, n) ==
    /\ n \in DOMAIN topo_sort
    /\ topo_sort[n] > topo_sort[c.src_op]
    /\ topo_sort[n] < topo_sort[c.dest_op] - c.ahead

\* n may trigger the swap-in of call c: it is in the window, the anchor is
\* reachable from it along data edges, and its name has no "/cond/".
MayTrigger(c, n) ==
    /\ InWindow(c, n)
    /\ c.dest_op \in ForwardWalkOps(n)
    /\ n \notin in_cond

\* What _do_direct_order returned in every call so far.
TriggerIsHighestInWindow ==
    \A i \in 1..Len(hist.calls) :
        LET c == hist.calls[i]
        IN  IF \E n \in ops : MayTrigger(c, n)
            THEN /\ c.re # <<>>
                 /\ MayTrigger(c, c.re[1])
                 /\ c.re[2] = topo_sort[c.re[1]]
                 /\ \A n \in ops : MayTrigger(c, n) => topo_sort[n] <= c.re[2]
            ELSE c.re = <<>>

\* A call in which _do_direct_order returned no operation changes no
\* control input and raises nothing.
NoTriggerNoEdge ==
    (/\ Len(hist'.calls) = Len(hist.calls) + 1
     /\ hist'.calls[Len(hist'.calls)].re = <<>>)
        => (control_inputs' = control_inputs /\ err' = "none")

\* C12: _do_direct_order returns an operation of the highest order of the
\* open window (order of fw_op, order of src_op - distance) at which some
\* operation reaches src_op and is outside "/cond/", with that order; when no
\* order of the window has one it returns none, and _add_control_dependency
\* then adds no control input and raises nothing.
C12_TriggerSearch ==
    [] TriggerIsHighestInWindow /\ [][NoTriggerNoEdge]_vars

C12_Witness ==
    /\ pc = "done"
    /\ \E i \in 1..Len(hist.calls) :
          LET c == hist.calls[i]
          IN  /\ c.re # <<>>
              /\ \E n \in ops :
                    /\ InWindow(c, n)
                    /\ ~MayTrigger(c, n)
                    /\ topo_sort[n] > c.re[2]
    /\ \E i \in 1..Len(hist.calls) :
          /\ hist.calls[i].re = <<>>
          /\ control_inputs[hist.calls[i].swapin_op] = {}

----------------------------------------------------------------------------
(* The insertion for one tensor *)

\* The consumers of tensor t of the user's graph that are further than the
\* threshold from its producer, and their bands.
FarConsumers(t) ==
    {c \in hist.orig.consumers[t] : Distance(t, c) > lms.swapout_threshold}

Bands(t) == Groupby(FarConsumers(t), lms.swapin_groupby)

\* _insert_swap_nodes has inserted the swap nodes of tensor t.
Inserted(t) ==
    /\ Processed(t[1])
    /\ KnownMatrix(t)
    /\ FarConsumers(t) # {}

\* The triples whose swap-in op is si.
TriplesOf(si) == {j \in 1..Len(ops_triples) : ops_triples[j][3] = si}

\* Swap-in op si serves band b of a tensor of p through swap-out op so.
ServesBand(si, so, p, b) ==
    /\ si \in swapin_ops
    /\ Fanins(si) = {so}
    /\ consumers[<<si, 0>>] = b
    /\ Cardinality(TriplesOf(si)) = 1
    /\ \A j \in TriplesOf(si) :
          /\ ops_triples[j][1] = p
          /\ ops_triples[j][2] \in b
          /\ topo_sort[ops_triples[j][2]] = Min(Orders(b))

\* C13: once the swap nodes of an eligible tensor t of p with bands
\* B1..Bk are inserted, exactly one swap-out op reads t and it has p as a
\* control input; exactly k swap-in ops read the swap-out op; the consumers
\* of swap-in op i are the operations of Bi, which no longer read t; the
\* consumers within the threshold still read t; and each band has exactly
\* one triple (p, anchor, swap-in op i), the anchor being an operation of
\* the smallest order of Bi.
C13_InsertionForOneTensor ==
    \A t \in OrigTensors :
        Inserted(t) =>
            LET p     == t[1]
                bands == Bands(t)
                souts == consumers[t] \cap swapout_ops
            IN  /\ Cardinality(souts) = 1
                /\ consumers[t] \ souts =
                       hist.orig.consumers[t] \ FarConsumers(t)
                /\ \A so \in souts :
                      /\ Fanins(so) = {p}
                      /\ p \in control_inputs[so]
                      /\ Cardinality(consumers[<<so, 0>>]) = Len(bands)
                      /\ \A i \in 1..Len(bands) :
                            \E si \in consumers[<<so, 0>>] :
                                ServesBand(si, so, p, bands[i])
                      /\ Cardinality({j \in 1..Len(ops_triples) :
                             ops_triples[j][3] \in consumers[<<so, 0>>]})
                            = Len(bands)

C13_Witness ==
    /\ pc = "done"
    /\ \E t \in OrigTensors :
          /\ Inserted(t)
          /\ Len(Bands(t)) >= 2
          /\ \E i \in 1..Len(Bands(t)) : Cardinality(Bands(t)[i]) >= 2
          /\ hist.orig.consumers[t] \ FarConsumers(t) # {}
          /\ Cardinality(consumers[t] \cap swapout_ops) = 1

----------------------------------------------------------------------------
(* Cycles *)

\* The operations that must run after op: its consumers and the operations
\* that have it as a control input.
Successors(op) == Fanouts(op) \cup {v \in ops : op \in control_inputs[v]}

\* The operations reachable from frontier along data and control edges.
RECURSIVE ReachableFrom(_, _)
ReachableFrom(frontier, seen) ==
    IF frontier \subseteq seen THEN seen
    ELSE ReachableFrom(UNION {Successors(op) : op \in frontier \ seen},
                       seen \cup frontier)

\* Some operation must run after itself.
HasCycle == \E op \in ops : op \in ReachableFrom(Successors(op), {})

\* C14 as stated: whenever run() has returned, in any sync_mode and with
\* any swapin_ahead, the graph of all data and control edges has no cycle.
C14_AcyclicAfterRun == pc = "done" => ~HasCycle

====
